---- MODULE Spec2Model ----
(***************************************************************************)
(* Model of the SNMP OBJECT IDENTIFIER codec of oid.go: ParseOID, String,  *)
(* encodeOIDUint, Encode and decodeOID.                                    *)
(*                                                                         *)
(* A Go string is a sequence of one-character strings, a []byte is a       *)
(* sequence of numbers in 0..255, an ObjectIdentifier is a sequence of     *)
(* numbers in 0..65535.  A nil slice is the empty sequence together with   *)
(* the flag isNil.  A run-time panic (index out of range) is the outcome   *)
(* kind "panic".                                                           *)
(***************************************************************************)
EXTENDS Integers, Sequences, FiniteSets, TLC

VARIABLES
    pc,       \* position of the calling program
    str,      \* the text handed to ParseOID / returned by String
    oid,      \* the ObjectIdentifier handed to String / Encode
    parsed,   \* what ParseOID returned
    encoded,  \* what Encode returned
    length,   \* the declared length handed to decodeOID
    stream,   \* the bytes the io.Reader holds before it reports end of input
    rd,       \* what the single r.Read call returned: [n, err]
    decoded   \* what decodeOID returned

vars == <<pc, str, oid, parsed, encoded, length, stream, rd, decoded>>

----------------------------------------------------------------------------
(* Bounds of the model and the input domains drawn from them.              *)

MaxStrLen == 6
MaxTextArcs == 3
MaxArcs == 4
MaxPayload == 4

SeqsUpTo(S, n) == UNION {[1..k -> S] : k \in 0..n}

\* characters fed to the parser: the separator, digits that spell 65535 and
\* 65536, a leading zero, and a letter
Alphabet == {".", "0", "3", "5", "6", "x"}
\* arcs fed to the formatter: 1 to 5 decimal digits, with inner zeros
TextArcs == {0, 7, 10, 305, 6050, 65535}
\* arcs fed to the encoder: the root arcs 1 and 3, a wrong root arc 0, and
\* the ends of the 1, 2 and 3 group ranges of base 128
ArcVals == {0, 1, 3, 127, 128, 16383, 16384, 65535}
\* bytes fed to the decoder
ByteVals == {0, 43, 127, 128, 129, 132, 255}
\* the OID of the documented wire example, 1.3.6.1.2.1
ExampleOID == <<1, 3, 6, 1, 2, 1>>

----------------------------------------------------------------------------
(* the value of a result variable before its operation has run            *)

NoResult == [kind |-> "none"]

----------------------------------------------------------------------------
(* strings.Trim(str, ".") and strings.Split(_, ".")                        *)

RECURSIVE TrimLeft(_)
TrimLeft(s) ==
    IF s # <<>> /\ Head(s) = "." THEN TrimLeft(Tail(s)) ELSE s

RECURSIVE TrimRight(_)
TrimRight(s) ==
    IF s # <<>> /\ s[Len(s)] = "." THEN TrimRight(SubSeq(s, 1, Len(s) - 1)) ELSE s

Trim(s) == TrimRight(TrimLeft(s))

\* index of the first "." of s, 0 when there is none (strings.Index)
RECURSIVE IndexDot(_, _)
IndexDot(s, i) ==
    IF i > Len(s) THEN 0
    ELSE IF s[i] = "." THEN i
    ELSE IndexDot(s, i + 1)

RECURSIVE Split(_)
Split(s) ==
    LET i == IndexDot(s, 1) IN
    IF i = 0 THEN <<s>>
    ELSE <<SubSeq(s, 1, i - 1)>> \o Split(SubSeq(s, i + 1, Len(s)))

----------------------------------------------------------------------------
(* strconv.ParseUint(part, 10, 16)                                         *)

Digits == <<"0", "1", "2", "3", "4", "5", "6", "7", "8", "9">>

IsDigit(c) == \E d \in 1..10 : Digits[d] = c

DigitVal(c) == (CHOOSE d \in 1..10 : Digits[d] = c) - 1

\* the loop over the bytes of s, n the value accumulated so far; the result
\* is [n, err], err one of "nil", "syntax" (ErrSyntax), "range" (ErrRange).
\* The library's test n >= cutoff (maxUint64/10 + 1) never fires for
\* bitSize 16: n <= maxVal at the head of every iteration.
RECURSIVE ParseUintLoop(_, _)
ParseUintLoop(s, n) ==
    LET maxVal == 2^16 - 1   \* 1<<bitSize - 1
    IN
    IF s = <<>> THEN [n |-> n, err |-> "nil"]
    ELSE IF ~IsDigit(Head(s)) THEN [n |-> 0, err |-> "syntax"]
    ELSE LET n1 == n * 10 + DigitVal(Head(s)) IN
         IF n1 > maxVal THEN [n |-> maxVal, err |-> "range"]
         ELSE ParseUintLoop(Tail(s), n1)

ParseUint(s) ==
    IF s = <<>> THEN [n |-> 0, err |-> "syntax"]
    ELSE ParseUintLoop(s, 0)

----------------------------------------------------------------------------
(* func ParseOID(str string) (ObjectIdentifier, error)                     *)

\* the loop over parts, acc the oid appended so far
RECURSIVE ParseParts(_, _)
ParseParts(parts, acc) ==
    IF parts = <<>> THEN [kind |-> "ok", oid |-> acc, isNil |-> FALSE, err |-> "nil"]
    ELSE LET r == ParseUint(Head(parts)) IN
         IF r.err # "nil"
         THEN [kind |-> "err", oid |-> <<>>, isNil |-> TRUE, err |-> r.err]
         ELSE ParseParts(Tail(parts), Append(acc, r.n))

\* ParseOID with the call of strings.Trim left out
ParseOIDNoTrim(s) == ParseParts(Split(s), <<>>)

ParseOID(s) == ParseParts(Split(Trim(s)), <<>>)

----------------------------------------------------------------------------
(* func (oid ObjectIdentifier) String() string                             *)

\* fmt.Sprintf("%d", n) for n >= 0
RECURSIVE FormatDecimal(_)
FormatDecimal(n) ==
    IF n < 10 THEN <<Digits[n + 1]>>
    ELSE Append(FormatDecimal(n \div 10), Digits[(n % 10) + 1])

\* String with the '.' left out of the format string
RECURSIVE StringNoDot(_)
StringNoDot(o) ==
    IF o = <<>> THEN <<>>
    ELSE StringNoDot(SubSeq(o, 1, Len(o) - 1)) \o FormatDecimal(o[Len(o)])

RECURSIVE String(_)
String(o) ==
    IF o = <<>> THEN <<>>
    ELSE String(SubSeq(o, 1, Len(o) - 1)) \o <<".">> \o FormatDecimal(o[Len(o)])

----------------------------------------------------------------------------
(* helpers of the package that oid.go calls                                *)

\* reverseSlice: the bytes in the opposite order
reverseSlice(b) == [i \in 1..Len(b) |-> b[Len(b) + 1 - i]]

\* big-endian base-256 digits of n > 0
RECURSIVE Base256(_)
Base256(n) ==
    IF n < 256 THEN <<n>> ELSE Append(Base256(n \div 256), n % 256)

\* encodeHeaderSequence(tag, length): the tag byte, then the BER length in
\* short form below 128 and in long form otherwise
encodeHeaderSequence(tag, n) ==
    IF n < 128 THEN <<tag, n>>
    ELSE <<tag, 128 + Len(Base256(n))>> \o Base256(n)

\* number of bytes of the header that starts b (the inverse, decode-header)
HeaderLen(b) == IF b[2] < 128 THEN 2 ELSE 2 + (b[2] - 128)

----------------------------------------------------------------------------
(* func encodeOIDUint(i uint16) []byte                                     *)

\* the loop "for i > 0", b the bytes appended so far (least significant first)
RECURSIVE EncodeUintLoop(_, _)
EncodeUintLoop(i, b) ==
    IF i > 0
    THEN EncodeUintLoop(i \div 128, Append(b, 128 + ((i % 256) % 128)))
    ELSE b

\* encodeOIDUint with the call of reverseSlice left out
encodeOIDUintNoReverse(i) ==
    IF i < 128 THEN <<i % 256>>
    ELSE EncodeUintLoop(i \div 128, <<(i % 256) % 128>>)

encodeOIDUint(i) ==
    IF i < 128 THEN <<i % 256>>
    ELSE reverseSlice(EncodeUintLoop(i \div 128, <<(i % 256) % 128>>))

----------------------------------------------------------------------------
(* func (oid ObjectIdentifier) Encode() ([]byte, error)                    *)

\* the loop "for i := 2; i < len(oid); i++", i counted from 1 here
RECURSIVE EncodeArcs(_, _, _)
EncodeArcs(o, i, b) ==
    IF i > Len(o) THEN b
    ELSE EncodeArcs(o, i + 1, b \o encodeOIDUint(o[i]))

\* Encode with the length check off by one (len(oid) < 1): a one-arc OID
\* reaches oid[1] of the root check, an index out of range
EncodeShortLengthCheck(o) ==
    IF Len(o) < 1
    THEN [kind |-> "err", bytes |-> <<>>, isNil |-> TRUE, err |-> "length"]
    ELSE IF Len(o) < 2
    THEN [kind |-> "panic", bytes |-> <<>>, isNil |-> TRUE,
          err |-> "index out of range"]
    ELSE IF o[1] # 1 /\ o[2] # 3
    THEN [kind |-> "err", bytes |-> <<>>, isNil |-> TRUE, err |-> "root"]
    ELSE LET b == EncodeArcs(o, 3, <<43>>) IN
         [kind |-> "ok", bytes |-> encodeHeaderSequence(6, Len(b)) \o b,
          isNil |-> FALSE, err |-> "nil"]

Encode(o) ==
    IF Len(o) < 2
    THEN [kind |-> "err", bytes |-> <<>>, isNil |-> TRUE, err |-> "length"]
    ELSE IF o[1] # 1 /\ o[2] # 3
    THEN [kind |-> "err", bytes |-> <<>>, isNil |-> TRUE, err |-> "root"]
    ELSE LET b == EncodeArcs(o, 3, <<43>>) IN
         [kind |-> "ok", bytes |-> encodeHeaderSequence(6, Len(b)) \o b,
          isNil |-> FALSE, err |-> "nil"]

----------------------------------------------------------------------------
(* func decodeOID(length int, r io.Reader) (ObjectIdentifier, int, error)  *)

\* b[i] for the Go index i (from 0) of buffer b
At(b, i) == b[i + 1]

\* the inner loop "for b[i] >= 128" and the statement after it; indexing b
\* at len(b) is a run-time panic
RECURSIVE DecodeGroup(_, _, _)

\* DecodeGroup with the "- 128" left out of the accumulation
DecodeGroupKeepsTopBit(b, i, val) ==
    IF i >= Len(b) THEN [panic |-> TRUE, i |-> i, val |-> val]
    ELSE IF At(b, i) >= 128
    THEN DecodeGroup(b, i + 1, (((val + At(b, i)) % 65536) * 128) % 65536)
    ELSE [panic |-> FALSE, i |-> i, val |-> (val + At(b, i)) % 65536]

DecodeGroup(b, i, val) ==
    IF i >= Len(b) THEN [panic |-> TRUE, i |-> i, val |-> val]
    ELSE IF At(b, i) >= 128
    THEN DecodeGroup(b, i + 1, (((val + (At(b, i) - 128)) % 65536) * 128) % 65536)
    ELSE [panic |-> FALSE, i |-> i, val |-> (val + At(b, i)) % 65536]

\* the outer loop "for i := 1; i < length; i++"
RECURSIVE DecodeArcs(_, _, _, _)
DecodeArcs(b, i, acc, n) ==
    IF i >= Len(b)
    THEN [kind |-> "ok", oid |-> acc, isNil |-> FALSE, n |-> n, err |-> "nil"]
    ELSE LET g == DecodeGroup(b, i, 0) IN
         IF g.panic
         THEN [kind |-> "panic", oid |-> <<>>, isNil |-> TRUE, n |-> n,
               err |-> "index out of range"]
         ELSE DecodeArcs(b, g.i + 1, Append(acc, g.val), n)

\* len the declared length; the single r.Read(b) copied the n bytes data
\* into b and returned (n, err)
decodeOID(len, data, n, err) ==
    LET b == [i \in 1..len |-> IF i <= n THEN data[i] ELSE 0] IN
    IF err # "nil"
    THEN [kind |-> "err", oid |-> <<>>, isNil |-> TRUE, n |-> n, err |-> err]
    ELSE IF len = 0
    THEN [kind |-> "panic", oid |-> <<>>, isNil |-> TRUE, n |-> n,
          err |-> "index out of range"]
    ELSE DecodeArcs(b, 1, <<At(b, 0) \div 40, At(b, 0) % 40>>, n)

\* what an io.Reader may answer to Read
ReadErrs == {"nil", "EOF", "ErrClosedPipe"}

----------------------------------------------------------------------------
(* The calling programs.                                                   *)

\* text side: a text to parse, or an OID to format and parse back
InitText ==
    /\ parsed = NoResult /\ encoded = NoResult /\ decoded = NoResult
    /\ rd = NoResult /\ length = 0 /\ stream = <<>>
    /\ \/ pc = "text" /\ str \in SeqsUpTo(Alphabet, MaxStrLen) /\ oid = <<>>
       \/ pc = "oid" /\ oid \in SeqsUpTo(TextArcs, MaxTextArcs) /\ str = <<>>

CallParseOID ==
    /\ pc \in {"text", "formatted"}
    /\ parsed' = ParseOID(str)
    /\ pc' = IF pc = "text" THEN "parsed" ELSE "reparsed"
    /\ UNCHANGED <<str, oid, encoded, length, stream, rd, decoded>>

CallString ==
    /\ pc = "oid"
    /\ str' = String(oid)
    /\ pc' = "formatted"
    /\ UNCHANGED <<oid, parsed, encoded, length, stream, rd, decoded>>

NextText == CallParseOID \/ CallString

SpecText == InitText /\ [][NextText]_vars

\* wire side, encoder first: an OID is encoded and the payload decoded back
InitCodec ==
    /\ pc = "oid"
    /\ oid \in SeqsUpTo(ArcVals, MaxArcs) \cup {ExampleOID}
    /\ str = <<>> /\ length = 0 /\ stream = <<>>
    /\ parsed = NoResult /\ encoded = NoResult /\ decoded = NoResult
    /\ rd = NoResult

CallEncode ==
    /\ pc = "oid"
    /\ encoded' = Encode(oid)
    /\ pc' = "encoded"
    /\ UNCHANGED <<str, oid, parsed, length, stream, rd, decoded>>

\* the payload of the encoding is put behind a reader that delivers it in
\* one Read, and decodeOID is called with its byte count
CallDecodeEncoded ==
    /\ pc = "encoded"
    /\ encoded.kind = "ok"
    /\ LET h == HeaderLen(encoded.bytes)
           payload == SubSeq(encoded.bytes, h + 1, Len(encoded.bytes))
       IN /\ stream' = payload
          /\ length' = Len(payload)
          /\ rd' = [n |-> Len(payload), err |-> "nil"]
          /\ decoded' = decodeOID(Len(payload), payload, Len(payload), "nil")
    /\ pc' = "decoded"
    /\ UNCHANGED <<str, oid, parsed, encoded>>

NextCodec == CallEncode \/ CallDecodeEncoded

SpecCodec == InitCodec /\ [][NextCodec]_vars

\* wire side, decoder alone: the reader holds stream (no more than length
\* bytes: later bytes are never asked for) and answers the one Read with
\* any n of them and any err
InitDecode ==
    /\ pc = "wire"
    /\ length \in 0..MaxPayload
    /\ stream \in SeqsUpTo(ByteVals, length)
    /\ str = <<>> /\ oid = <<>>
    /\ parsed = NoResult /\ encoded = NoResult /\ decoded = NoResult
    /\ rd = NoResult

CallDecodeOID ==
    /\ pc = "wire"
    /\ \E n \in 0..Len(stream), err \in ReadErrs :
          /\ rd' = [n |-> n, err |-> err]
          /\ decoded' = decodeOID(length, SubSeq(stream, 1, n), n, err)
    /\ pc' = "decoded"
    /\ UNCHANGED <<str, oid, parsed, encoded, length, stream>>

NextDecode == CallDecodeOID

SpecDecode == InitDecode /\ [][NextDecode]_vars

\* the whole package: any of the three callers
Init == InitText \/ InitCodec \/ InitDecode

Next == NextText \/ NextCodec \/ NextDecode

Spec == Init /\ [][Next]_vars

----------------------------------------------------------------------------
(* What the text format and the wire format say, stated without the        *)
(* algorithms above.                                                       *)

Min(S) == CHOOSE x \in S : \A y \in S : x <= y
Max(S) == CHOOSE x \in S : \A y \in S : x >= y

\* s without its leading and trailing '.'
Trimmed(s) ==
    LET keep == {i \in 1..Len(s) : s[i] # "."} IN
    IF keep = {} THEN <<>> ELSE SubSeq(s, Min(keep), Max(keep))

\* the '.'-separated tokens of t: token k lies between the (k-1)th and the
\* kth '.', the ends of t counting as separators
Tokens(t) ==
    LET dots == {i \in 1..Len(t) : t[i] = "."}
        edge(k) == IF k = 0 THEN 0
                   ELSE IF k = Cardinality(dots) + 1 THEN Len(t) + 1
                   ELSE CHOOSE p \in dots : Cardinality({q \in dots : q < p}) = k - 1
    IN [k \in 1..(Cardinality(dots) + 1) |-> SubSeq(t, edge(k - 1) + 1, edge(k) - 1)]

\* the number a string of decimal digits denotes
RECURSIVE DecimalValue(_)
DecimalValue(t) ==
    IF t = <<>> THEN 0
    ELSE DigitVal(Head(t)) * 10^(Len(t) - 1) + DecimalValue(Tail(t))

TokenOK(t) ==
    /\ t # <<>>
    /\ \A i \in 1..Len(t) : IsDigit(t[i])
    /\ DecimalValue(t) <= 65535

\* the decimal numeral of n in 0..65535
Numeral(n) ==
    LET k == IF n < 10 THEN 1 ELSE IF n < 100 THEN 2 ELSE IF n < 1000 THEN 3
             ELSE IF n < 10000 THEN 4 ELSE 5
    IN [i \in 1..k |-> Digits[((n \div 10^(k - i)) % 10) + 1]]

RECURSIVE Flatten(_)
Flatten(ss) == IF ss = <<>> THEN <<>> ELSE Head(ss) \o Flatten(Tail(ss))

CanonicalText(o) == Flatten([i \in 1..Len(o) |-> <<".">> \o Numeral(o[i])])

\* the base-128 groups of v in 0..65535, most significant first, the top bit
\* set on all but the last
Base128(v) ==
    IF v < 128 THEN <<v>>
    ELSE IF v < 16384 THEN <<128 + (v \div 128), v % 128>>
    ELSE <<128 + (v \div 16384), 128 + ((v \div 128) % 128), v % 128>>

WirePayload(o) == <<43>> \o Flatten([i \in 1..(Len(o) - 2) |-> Base128(o[i + 2])])

\* the indices (from 1) after the root byte at which a group of b ends
GroupEnds(b) == {i \in 2..Len(b) : b[i] < 128}

\* the index at which the group ending at e starts
GroupStart(b, e) ==
    LET before == {i \in GroupEnds(b) : i < e} IN
    IF before = {} THEN 2 ELSE Max(before) + 1

\* the number the bytes lo..hi of b denote: the low 7 bits of each, big-endian
RECURSIVE GroupValue(_, _, _)
GroupValue(b, lo, hi) ==
    IF lo > hi THEN 0
    ELSE (b[lo] % 128) * 128^(hi - lo) + GroupValue(b, lo + 1, hi)

\* the groups of b in order, each as the pair of its first and last index;
\* the bytes after the last group end form a group without an end
Groups(b) ==
    LET ends == GroupEnds(b)
        nth(k) == CHOOSE e \in ends : Cardinality({x \in ends : x < e}) = k - 1
    IN [k \in 1..Cardinality(ends) |-> <<GroupStart(b, nth(k)), nth(k)>>]

WellTerminated(b) == Len(b) >= 1 /\ b[Len(b)] < 128

InRange(b) ==
    \A k \in 1..Len(Groups(b)) : GroupValue(b, Groups(b)[k][1], Groups(b)[k][2]) <= 65535

WireArcs(b) ==
    <<b[1] \div 40, b[1] % 40>>
    \o [k \in 1..Len(Groups(b)) |-> GroupValue(b, Groups(b)[k][1], Groups(b)[k][2])]

\* the one Read returned every byte of the declared length and no error
FullRead == rd.err = "nil" /\ rd.n = length /\ Len(stream) = length

----------------------------------------------------------------------------
(* The claims.                                                             *)

\* C1: decoding the payload Encode produced for an OID of two or more arcs,
\* delivered in one read, returns that OID, the payload length as the byte
\* count, and no error.
C1_RoundTrip ==
    pc = "decoded" =>
        /\ decoded.kind = "ok"
        /\ decoded.oid = oid
        /\ decoded.n = length
        /\ decoded.err = "nil"

\* The round trip does hold from the canonical root (1, 3).
RoundTripFromCanonicalRoot ==
    (pc = "decoded" /\ oid[1] = 1 /\ oid[2] = 3) =>
        decoded.kind = "ok" /\ decoded.oid = oid /\ decoded.n = length

\* C2: decodeOID returns success only with all length bytes obtained, also
\* from a reader whose Read returns fewer bytes than asked without an error;
\* when the reader signals an error it returns the error, no OID and the
\* bytes obtained.
C2_ReadExact ==
    (pc = "decoded" /\ Len(stream) = length) =>
        /\ decoded.kind = "ok" => decoded.n = length
        /\ (rd.err = "nil" /\ WellTerminated(stream) /\ InRange(stream))
           => (decoded.kind = "ok" /\ decoded.oid = WireArcs(stream))
        /\ rd.err # "nil" =>
              (decoded.kind = "err" /\ decoded.isNil /\ decoded.n = rd.n)

\* C3: a payload of length >= 1 whose last byte has its top bit set makes
\* decodeOID return a malformed-input error and no OID, and decodeOID never
\* indexes the buffer at or beyond length.
C3_BoundsChecked ==
    pc = "decoded" =>
        /\ (FullRead /\ length >= 1 /\ stream[length] >= 128)
           => (decoded.kind = "err" /\ decoded.isNil)
        /\ (length >= 1 => decoded.kind # "panic")

\* C4: Encode accepts an OID of two or more arcs only if its first two arcs
\* are (1, 3), rejects every other one with the root error and no bytes, and
\* so the lead byte 0x2B equals 40*oid[0] + oid[1] of what it accepted.
C4_RootValidation ==
    (pc = "encoded" /\ Len(oid) >= 2) =>
        /\ encoded.kind = "ok" =>
              (oid[1] = 1 /\ oid[2] = 3
               /\ encoded.bytes[HeaderLen(encoded.bytes) + 1] = 40 * oid[1] + oid[2])
        /\ (oid[1] # 1 \/ oid[2] # 3) =>
              (encoded.kind = "err" /\ encoded.err = "root" /\ encoded.isNil)

\* C5: ParseOID succeeds exactly when every '.'-separated token of the
\* trimmed text is a non-empty string of decimal digits of value at most
\* 65535, and then returns those values in order; otherwise it returns an
\* error and a nil OID.  "", "." and "3..5" fail on an empty token, "65536"
\* fails on the range.
C5_ParserAcceptance ==
    pc = "parsed" =>
        LET toks == Tokens(Trimmed(str)) IN
        /\ IF \A k \in 1..Len(toks) : TokenOK(toks[k])
           THEN /\ parsed.kind = "ok"
                /\ parsed.err = "nil"
                /\ parsed.oid = [k \in 1..Len(toks) |-> DecimalValue(toks[k])]
           ELSE /\ parsed.kind = "err"
                /\ parsed.err \in {"syntax", "range"}
                /\ parsed.isNil
                /\ parsed.oid = <<>>
        /\ str \in {<<>>, <<".">>, <<"3", ".", ".", "5">>} => parsed.err = "syntax"
        /\ str = <<"6", "5", "5", "3", "6">> => parsed.err = "range"

C5_Witness ==
    /\ pc = "parsed"
    /\ str = <<"3", ".", ".", "5">>
    /\ parsed.kind = "err"

\* C6: for every non-empty OID, String gives '.' and the decimal value of
\* each arc in order, and ParseOID of that text succeeds and returns the OID.
C6_TextRoundTrip ==
    (pc = "reparsed" /\ oid # <<>>) =>
        /\ str = CanonicalText(oid)
        /\ parsed.kind = "ok"
        /\ parsed.oid = oid

C6_Witness ==
    /\ pc = "reparsed"
    /\ oid = <<65535, 0, 6050>>
    /\ parsed.oid = oid

\* C7: what Encode returns for an OID it accepts is the tag 0x06, the byte
\* count of the payload, and the payload: 0x2B, then the base-128 groups of
\* each arc from the third on.  1.3.6.1.2.1 gives 06 06 2B 06 01 02 01.
C7_EncodeWireLayout ==
    (pc = "encoded" /\ encoded.kind = "ok") =>
        /\ encoded.bytes = <<6, Len(WirePayload(oid))>> \o WirePayload(oid)
        /\ oid = ExampleOID => encoded.bytes = <<6, 6, 43, 6, 1, 2, 1>>

\* C7 as amended: the same layout; 1.3.6.1.2.1 has a payload of five bytes
\* and gives 06 05 2B 06 01 02 01.
C7_EncodeWireLayoutAmended ==
    (pc = "encoded" /\ encoded.kind = "ok") =>
        /\ encoded.bytes = <<6, Len(WirePayload(oid))>> \o WirePayload(oid)
        /\ oid = ExampleOID => encoded.bytes = <<6, 5, 43, 6, 1, 2, 1>>

C7_Witness ==
    /\ pc = "encoded"
    /\ oid = <<1, 3, 128, 16384>>
    /\ encoded.bytes = <<6, 6, 43, 129, 0, 129, 128, 0>>

\* C8: for a payload of length >= 1 read in full, whose last byte has its top
\* bit clear and whose groups all denote at most 65535, decodeOID returns
\* byte0 / 40, byte0 % 40 and then the value of each group in order: 2 plus
\* the number of bytes after the first with the top bit clear arcs in all.
C8_DecodeWellFormed ==
    (pc = "decoded" /\ FullRead /\ WellTerminated(stream) /\ InRange(stream)) =>
        /\ decoded.kind = "ok"
        /\ decoded.n = length
        /\ decoded.oid = WireArcs(stream)
        /\ Len(decoded.oid) = 2 + Cardinality({i \in 2..length : stream[i] < 128})
        /\ stream = <<43, 129, 0>> => decoded.oid = <<1, 3, 128>>
        /\ stream = <<43, 255, 127>> => decoded.oid = <<1, 3, 16383>>
        /\ stream = <<43, 129, 128, 0>> => decoded.oid = <<1, 3, 16384>>

C8_Witness ==
    /\ pc = "decoded"
    /\ FullRead
    /\ stream = <<255, 129, 128, 0>>
    /\ decoded.oid = <<6, 15, 16384>>

\* C9: a group that denotes more than 65535 makes decodeOID fail with a range
\* error and return no OID.
C9_OverflowIsError ==
    (pc = "decoded" /\ FullRead /\ WellTerminated(stream) /\ ~InRange(stream)) =>
        decoded.kind = "err" /\ decoded.isNil

\* What decodeOID returns instead: every arc reduced modulo 2^16.
OverflowWraps ==
    (pc = "decoded" /\ FullRead /\ WellTerminated(stream)) =>
        /\ decoded.kind = "ok"
        /\ decoded.oid = [k \in 1..Len(WireArcs(stream)) |-> WireArcs(stream)[k] % 65536]

\* C10: Encode of an OID of fewer than two arcs fails with the length error
\* and returns nil, whatever the arcs are.
C10_EncodeLengthCheck ==
    (pc = "encoded" /\ Len(oid) < 2) =>
        /\ encoded.kind = "err"
        /\ encoded.err = "length"
        /\ encoded.isNil
        /\ encoded.bytes = <<>>

C10_Witness ==
    /\ pc = "encoded"
    /\ oid = <<65535>>
    /\ encoded.err = "length"

====
